---- MODULE Spec2Model ----
(***************************************************************************)
(* A model of src/blackjack.py: the Blackjack game object (deck, hands,    *)
(* done flags), its hand evaluation, its dealer and player draws, the      *)
(* run() turn loop and the winner computation.                             *)
(***************************************************************************)
EXTENDS Integers, Sequences, FiniteSets, TLC

VARIABLES
    num_decks,      \* self._num_decks
    num_players,    \* self._num_players
    card_stack,     \* self._card_stack: the deck, drawn from its end
    dealer_stack,   \* self._dealer_stack
    player_stacks,  \* self._player_stacks: one hand per player
    player_dones,   \* self._player_dones
    current_turn,   \* self._current_turn
    pc,             \* where the control flow is: "new", "idle", "prompt", "dealer", "resolve"
    player_idx,     \* run()'s loop variable while a prompt is open (0-based)
    calls,          \* number of method calls made on the object from outside
    call            \* the last call: [op, arg, ret, err]

vars == <<num_decks, num_players, card_stack, dealer_stack, player_stacks,
          player_dones, current_turn, pc, player_idx, calls, call>>

game == <<num_decks, num_players, card_stack, dealer_stack, player_stacks,
          player_dones, current_turn>>

-----------------------------------------------------------------------------
(* Bounds of the model. *)

MaxDecks == 1       \* num_decks is drawn from 0..MaxDecks
MaxPlayers == 2     \* num_players is drawn from 0..MaxPlayers and the full table
MaxStride == 3      \* shuffles: step between consecutive deck positions
MaxOffset == 5      \* shuffles: rotation of the deck
MaxCalls == 2       \* direct method calls a client makes on one game object
MaxHandLen == 3     \* length of the hands handed to _calculate_stack_sum alone
MaxSum == 24        \* sums handed to _compute_winner alone

-----------------------------------------------------------------------------
(* Blackjack.__init__: the attributes that never change. *)

SUITS == <<"Spades", "Hearts", "Clubs", "Diamonds">>
ACE_LOW == 1
ACE_HIGH == 11
LOWEST_CARD == 1
HIGHEST_CARD == 13
WINNING_SUM == 21
MAX_ROYALTY == 10
DEALER_STAND == 17

Card(suit, number) == [suit |-> suit, number |-> number]

NoError == "none"
PopFromEmptyList == "IndexError: pop from empty list"
ListIndexOutOfRange == "IndexError: list index out of range"

-----------------------------------------------------------------------------
(* Helpers over sequences and integers. *)

RECURSIVE SumSeq(_)
SumSeq(s) == IF s = <<>> THEN 0 ELSE Head(s) + SumSeq(Tail(s))

\* [idx for idx, card in enumerate(stack) if card.number == 1]
RECURSIVE AceIndices(_, _)
AceIndices(stack, idx) ==
    IF idx >= Len(stack) THEN <<>>
    ELSE (IF stack[idx + 1].number = 1 THEN <<idx>> ELSE <<>>)
         \o AceIndices(stack, idx + 1)

\* [card.number for card in stack if card.number != 1]
RECURSIVE NumbersWithoutAce(_)
NumbersWithoutAce(stack) ==
    IF stack = <<>> THEN <<>>
    ELSE (IF Head(stack).number # 1 THEN <<Head(stack).number>> ELSE <<>>)
         \o NumbersWithoutAce(Tail(stack))

RECURSIVE GCD(_, _)
GCD(a, b) == IF b = 0 THEN a ELSE GCD(b, a % b)

Min(a, b) == IF a < b THEN a ELSE b

-----------------------------------------------------------------------------
(* _create_stack: num_decks times, for each suit, the ranks 1..13; then a  *)
(* shuffle.                                                                *)

RanksPerSuit == HIGHEST_CARD + 1 - LOWEST_CARD

OneDeck ==
    [i \in 1..(Len(SUITS) * RanksPerSuit) |->
        Card(SUITS[((i - 1) \div RanksPerSuit) + 1],
             LOWEST_CARD + ((i - 1) % RanksPerSuit))]

RECURSIVE the_list(_)
the_list(n) == IF n <= 0 THEN <<>> ELSE the_list(n - 1) \o OneDeck

(* random.shuffle permutes the list in place.  The permutations explored   *)
(* are those that walk the list with a step coprime to its length from a   *)
(* rotated start.                                                          *)
Shuffle(list, stride, offset) ==
    [i \in 1..Len(list) |-> list[((offset + (i - 1) * stride) % Len(list)) + 1]]

Shuffles(list) ==
    IF list = <<>> THEN {<<>>}
    ELSE {Shuffle(list, stride, offset) :
            stride \in {s \in 1..MaxStride : GCD(s, Len(list)) = 1},
            offset \in 0..Min(MaxOffset, Len(list) - 1)}

-----------------------------------------------------------------------------
(* Hand evaluation. *)

\* np.clip(x, a_min=1, a_max=self._MAX_ROYALTY)
Clip(x) == IF x < 1 THEN 1 ELSE IF x > MAX_ROYALTY THEN MAX_ROYALTY ELSE x

\* Mutant: the ranks are summed as they are, face cards not clipped to 10.
_calculate_no_aces_unclipped(stack) == SumSeq(stack)

_calculate_no_aces(stack) ==
    SumSeq([i \in 1..Len(stack) |-> Clip(stack[i])])

\* One pass of the for loop of calculate_optimal_ace_sum, from card_idx on.
RECURSIVE AceLoop(_, _, _, _, _)
AceLoop(card_idx, number_of_ace_cards, ace_sum, current_sum, target_sum) ==
    IF card_idx >= number_of_ace_cards THEN ace_sum
    ELSE IF current_sum + ace_sum + ACE_HIGH <= target_sum - card_idx
         THEN AceLoop(card_idx + 1, number_of_ace_cards, ace_sum + ACE_HIGH,
                      current_sum, target_sum)
         ELSE AceLoop(card_idx + 1, number_of_ace_cards, ace_sum + ACE_LOW,
                      current_sum, target_sum)

calculate_optimal_ace_sum(number_of_ace_cards, current_sum, target_sum) ==
    AceLoop(0, number_of_ace_cards, 0, current_sum, target_sum)

_calculate_stack_sum(stack) ==
    LET num_cards_ace == Len(AceIndices(stack, 0))
        sum_of_cards_without_ace == _calculate_no_aces(NumbersWithoutAce(stack))
        ace_sum == calculate_optimal_ace_sum(num_cards_ace, sum_of_cards_without_ace,
                                             WINNING_SUM)
    IN  sum_of_cards_without_ace + ace_sum

-----------------------------------------------------------------------------
(* Winner computation. *)

\* Mutant: the dealer's 21 is tested before the tie at 21.
_compute_winner_dealer_first(dealer_sum, player_sum) ==
    IF dealer_sum = WINNING_SUM THEN "DEALER"
    ELSE IF WINNING_SUM > dealer_sum /\ dealer_sum > player_sum THEN "DEALER"
    ELSE IF player_sum > WINNING_SUM THEN "DEALER"
    ELSE IF player_sum = WINNING_SUM THEN "PLAYER"
    ELSE IF dealer_sum < player_sum /\ player_sum < WINNING_SUM THEN "PLAYER"
    ELSE "NONE"

\* Mutant: a busted player facing a busted dealer is not given to the dealer.
_compute_winner_both_bust_push(dealer_sum, player_sum) ==
    IF dealer_sum = WINNING_SUM /\ player_sum = WINNING_SUM THEN "NONE"
    ELSE IF dealer_sum = WINNING_SUM THEN "DEALER"
    ELSE IF WINNING_SUM > dealer_sum /\ dealer_sum > player_sum THEN "DEALER"
    ELSE IF player_sum > WINNING_SUM /\ dealer_sum <= WINNING_SUM THEN "DEALER"
    ELSE IF player_sum = WINNING_SUM THEN "PLAYER"
    ELSE IF dealer_sum < player_sum /\ player_sum < WINNING_SUM THEN "PLAYER"
    ELSE "NONE"

\* Mutant: a dealer below 21 also wins the ties (>= for >).
_compute_winner_tie_to_dealer(dealer_sum, player_sum) ==
    IF dealer_sum = WINNING_SUM /\ player_sum = WINNING_SUM THEN "NONE"
    ELSE IF dealer_sum = WINNING_SUM THEN "DEALER"
    ELSE IF WINNING_SUM > dealer_sum /\ dealer_sum >= player_sum THEN "DEALER"
    ELSE IF player_sum > WINNING_SUM THEN "DEALER"
    ELSE IF player_sum = WINNING_SUM THEN "PLAYER"
    ELSE IF dealer_sum < player_sum /\ player_sum < WINNING_SUM THEN "PLAYER"
    ELSE "NONE"

_compute_winner(dealer_sum, player_sum) ==
    IF dealer_sum = WINNING_SUM /\ player_sum = WINNING_SUM THEN "NONE"
    ELSE IF dealer_sum = WINNING_SUM THEN "DEALER"
    ELSE IF WINNING_SUM > dealer_sum /\ dealer_sum > player_sum THEN "DEALER"
    ELSE IF player_sum > WINNING_SUM THEN "DEALER"
    ELSE IF player_sum = WINNING_SUM THEN "PLAYER"
    ELSE IF dealer_sum < player_sum /\ player_sum < WINNING_SUM THEN "PLAYER"
    ELSE "NONE"

\* _get_sums: (dealer_sum, [player_sum])
_get_sums(d_stack, p_stacks) ==
    <<_calculate_stack_sum(d_stack),
      [i \in 1..Len(p_stacks) |-> _calculate_stack_sum(p_stacks[i])]>>

compute_winners(d_stack, p_stacks) ==
    LET sums == _get_sums(d_stack, p_stacks)
    IN  [i \in 1..Len(sums[2]) |-> _compute_winner(sums[1], sums[2][i])]

-----------------------------------------------------------------------------
(* Draws.  Each operation maps the lists it touches to their new values,   *)
(* its return value and the exception it raised (NoError when none).       *)

NoCard == Card("", 0)

\* Mutant: an empty deck hands out a blank card instead of raising.
_draw_card_unchecked(stack) ==
    IF stack = <<>>
    THEN [card_stack |-> stack, ret |-> NoCard, err |-> NoError]
    ELSE [card_stack |-> SubSeq(stack, 1, Len(stack) - 1),
          ret |-> stack[Len(stack)], err |-> NoError]

\* Mutant: the card is taken from the front of the list (pop(0)).
_draw_card_from_front(stack) ==
    IF stack = <<>>
    THEN [card_stack |-> stack, ret |-> NoCard, err |-> PopFromEmptyList]
    ELSE [card_stack |-> Tail(stack), ret |-> Head(stack), err |-> NoError]

\* list.pop(): the last card, and the list without it.
_draw_card(stack) ==
    IF stack = <<>>
    THEN [card_stack |-> stack, ret |-> NoCard, err |-> PopFromEmptyList]
    ELSE [card_stack |-> SubSeq(stack, 1, Len(stack) - 1),
          ret |-> stack[Len(stack)], err |-> NoError]

\* Mutant: the dealer still hits at exactly 17.
dealer_draw_hits_on_17(stack, d_stack) ==
    LET current_sum == _calculate_stack_sum(d_stack)
    IN  IF current_sum <= DEALER_STAND
        THEN LET drawn == _draw_card(stack)
             IN  IF drawn.err # NoError
                 THEN [card_stack |-> stack, dealer_stack |-> d_stack,
                       ret |-> FALSE, err |-> drawn.err]
                 ELSE [card_stack |-> drawn.card_stack,
                       dealer_stack |-> Append(d_stack, drawn.ret),
                       ret |-> FALSE, err |-> NoError]
        ELSE [card_stack |-> stack, dealer_stack |-> d_stack,
              ret |-> TRUE, err |-> NoError]

\* Mutant: the dealer already stands on 16.
dealer_draw_stands_on_16(stack, d_stack) ==
    LET current_sum == _calculate_stack_sum(d_stack)
    IN  IF current_sum < DEALER_STAND - 1
        THEN LET drawn == _draw_card(stack)
             IN  IF drawn.err # NoError
                 THEN [card_stack |-> stack, dealer_stack |-> d_stack,
                       ret |-> FALSE, err |-> drawn.err]
                 ELSE [card_stack |-> drawn.card_stack,
                       dealer_stack |-> Append(d_stack, drawn.ret),
                       ret |-> FALSE, err |-> NoError]
        ELSE [card_stack |-> stack, dealer_stack |-> d_stack,
              ret |-> TRUE, err |-> NoError]

dealer_draw(stack, d_stack) ==
    LET current_sum == _calculate_stack_sum(d_stack)
    IN  IF current_sum < DEALER_STAND
        THEN LET drawn == _draw_card(stack)
             IN  IF drawn.err # NoError
                 THEN [card_stack |-> stack, dealer_stack |-> d_stack,
                       ret |-> FALSE, err |-> drawn.err]
                 ELSE [card_stack |-> drawn.card_stack,
                       dealer_stack |-> Append(d_stack, drawn.ret),
                       ret |-> FALSE, err |-> NoError]
        ELSE [card_stack |-> stack, dealer_stack |-> d_stack,
              ret |-> TRUE, err |-> NoError]

\* A Python list of length n accepts the indices -n..n-1; a negative index
\* counts from the end.  The 1-based position, or 0 when out of range.
ListPosition(n, idx) ==
    IF idx >= 0 /\ idx < n THEN idx + 1
    ELSE IF idx < 0 /\ idx >= 0 - n THEN n + idx + 1
    ELSE 0

\* Mutant: the drawn card is put at the front of the hand (insert(0, card)).
player_draw_prepend(stack, p_stacks, idx) ==
    LET drawn == _draw_card(stack)
        pos == ListPosition(Len(p_stacks), idx)
    IN  IF drawn.err # NoError
        THEN [card_stack |-> stack, player_stacks |-> p_stacks,
              ret |-> NoCard, err |-> drawn.err]
        ELSE IF pos = 0
        THEN [card_stack |-> drawn.card_stack, player_stacks |-> p_stacks,
              ret |-> NoCard, err |-> ListIndexOutOfRange]
        ELSE [card_stack |-> drawn.card_stack,
              player_stacks |-> [p_stacks EXCEPT ![pos] = <<drawn.ret>> \o @],
              ret |-> drawn.ret, err |-> NoError]

player_draw(stack, p_stacks, idx) ==
    LET drawn == _draw_card(stack)
        pos == ListPosition(Len(p_stacks), idx)
    IN  IF drawn.err # NoError
        THEN [card_stack |-> stack, player_stacks |-> p_stacks,
              ret |-> NoCard, err |-> drawn.err]
        ELSE IF pos = 0
        THEN [card_stack |-> drawn.card_stack, player_stacks |-> p_stacks,
              ret |-> NoCard, err |-> ListIndexOutOfRange]
        ELSE [card_stack |-> drawn.card_stack,
              player_stacks |-> [p_stacks EXCEPT ![pos] = Append(@, drawn.ret)],
              ret |-> drawn.ret, err |-> NoError]

\* Mutant: a hand that reaches exactly 21 counts as bust.
_player_choice_bust_at_21(stack, p_stacks, idx, player_input) ==
    IF player_input = "h"
    THEN LET r == player_draw(stack, p_stacks, idx)
             pos == ListPosition(Len(p_stacks), idx)
         IN  IF r.err # NoError
             THEN [card_stack |-> r.card_stack, player_stacks |-> r.player_stacks,
                   ret |-> FALSE, err |-> r.err]
             ELSE [card_stack |-> r.card_stack, player_stacks |-> r.player_stacks,
                   ret |-> _calculate_stack_sum(r.player_stacks[pos]) >= WINNING_SUM,
                   err |-> NoError]
    ELSE [card_stack |-> stack, player_stacks |-> p_stacks, ret |-> TRUE,
          err |-> NoError]

\* Mutant: a stay draws a card before the player is marked done.
_player_choice_stay_draws(stack, p_stacks, idx, player_input) ==
    LET r == player_draw(stack, p_stacks, idx)
        pos == ListPosition(Len(p_stacks), idx)
    IN  IF r.err # NoError
        THEN [card_stack |-> r.card_stack, player_stacks |-> r.player_stacks,
              ret |-> FALSE, err |-> r.err]
        ELSE [card_stack |-> r.card_stack, player_stacks |-> r.player_stacks,
              ret |-> IF player_input = "h"
                      THEN _calculate_stack_sum(r.player_stacks[pos]) > WINNING_SUM
                      ELSE TRUE,
              err |-> NoError]

\* _player_choice once the input is 'h' or 's': the hit or the stay, and the
\* done flag it returns.
_player_choice(stack, p_stacks, idx, player_input) ==
    IF player_input = "h"
    THEN LET r == player_draw(stack, p_stacks, idx)
             pos == ListPosition(Len(p_stacks), idx)
         IN  IF r.err # NoError
             THEN [card_stack |-> r.card_stack, player_stacks |-> r.player_stacks,
                   ret |-> FALSE, err |-> r.err]
             ELSE [card_stack |-> r.card_stack, player_stacks |-> r.player_stacks,
                   ret |-> _calculate_stack_sum(r.player_stacks[pos]) > WINNING_SUM,
                   err |-> NoError]
    ELSE [card_stack |-> stack, player_stacks |-> p_stacks, ret |-> TRUE,
          err |-> NoError]

\* The nested for loops of initial_deal, from player idx and draw number k on.
RECURSIVE DealPlayers(_, _, _, _, _)
DealPlayers(stack, p_stacks, n_players, idx, k) ==
    IF idx >= n_players
    THEN [card_stack |-> stack, player_stacks |-> p_stacks, err |-> NoError]
    ELSE IF k >= 2 THEN DealPlayers(stack, p_stacks, n_players, idx + 1, 0)
    ELSE LET r == player_draw(stack, p_stacks, idx)
         IN  IF r.err # NoError
             THEN [card_stack |-> r.card_stack, player_stacks |-> r.player_stacks,
                   err |-> r.err]
             ELSE DealPlayers(r.card_stack, r.player_stacks, n_players, idx, k + 1)

\* Mutant: the dealer's second, hidden card is not dealt.
initial_deal_one_dealer_card(stack, d_stack, p_stacks, n_players) ==
    LET first == dealer_draw(stack, d_stack)
        players == DealPlayers(first.card_stack, p_stacks, n_players, 0, 0)
    IN  IF first.err # NoError
        THEN [card_stack |-> first.card_stack, dealer_stack |-> first.dealer_stack,
              player_stacks |-> p_stacks, err |-> first.err]
        ELSE [card_stack |-> players.card_stack, dealer_stack |-> first.dealer_stack,
              player_stacks |-> players.player_stacks, err |-> players.err]

initial_deal(stack, d_stack, p_stacks, n_players) ==
    LET first == dealer_draw(stack, d_stack)
        second == dealer_draw(first.card_stack, first.dealer_stack)
        players == DealPlayers(second.card_stack, p_stacks, n_players, 0, 0)
    IN  IF first.err # NoError
        THEN [card_stack |-> first.card_stack, dealer_stack |-> first.dealer_stack,
              player_stacks |-> p_stacks, err |-> first.err]
        ELSE IF second.err # NoError
        THEN [card_stack |-> second.card_stack, dealer_stack |-> second.dealer_stack,
              player_stacks |-> p_stacks, err |-> second.err]
        ELSE [card_stack |-> players.card_stack, dealer_stack |-> second.dealer_stack,
              player_stacks |-> players.player_stacks, err |-> players.err]

-----------------------------------------------------------------------------
(* The loops of run(). *)

All(dones) == \A i \in 1..Len(dones) : dones[i]

\* Mutant: the dealer plays as soon as one pass over the players is over.
NextTurn_single_pass(dones, n_players, idx, turn) ==
    LET rest == {i \in idx..(n_players - 1) : ~dones[i + 1]}
    IN  IF rest # {}
        THEN [pc |-> "prompt", player_idx |-> CHOOSE i \in rest : \A j \in rest : i <= j,
              current_turn |-> turn]
        ELSE [pc |-> "dealer", player_idx |-> 0, current_turn |-> turn + 1]

\* Mutant: the dealer plays once any player is done (any for all).
NextTurn_any_done(dones, n_players, idx, turn) ==
    LET lowest(S) == CHOOSE i \in S : \A j \in S : i <= j
        rest == {i \in idx..(n_players - 1) : ~dones[i + 1]}
        open == {i \in 0..(n_players - 1) : ~dones[i + 1]}
    IN  IF rest # {}
        THEN [pc |-> "prompt", player_idx |-> lowest(rest), current_turn |-> turn]
        ELSE IF open = {} \/ (\E i \in 1..Len(dones) : dones[i])
        THEN [pc |-> "dealer", player_idx |-> 0, current_turn |-> turn + 1]
        ELSE [pc |-> "prompt", player_idx |-> lowest(open),
              current_turn |-> turn + 1]

\* Mutant: the for loop starts over from the first player after every choice.
NextTurn_restart(dones, n_players, idx, turn) ==
    LET lowest(S) == CHOOSE i \in S : \A j \in S : i <= j
        open == {i \in 0..(n_players - 1) : ~dones[i + 1]}
    IN  IF open = {}
        THEN [pc |-> "dealer", player_idx |-> 0, current_turn |-> turn + 1]
        ELSE [pc |-> "prompt", player_idx |-> lowest(open),
              current_turn |-> IF lowest(open) < idx THEN turn + 1 ELSE turn]

\* The for loop of run() from index idx on, and the while loop around it:
\* the next prompt that opens, or the dealer's turn when every flag is set.
RECURSIVE NextTurn(_, _, _, _)
NextTurn(dones, n_players, idx, turn) ==
    IF idx < n_players
    THEN IF ~dones[idx + 1]
         THEN [pc |-> "prompt", player_idx |-> idx, current_turn |-> turn]
         ELSE NextTurn(dones, n_players, idx + 1, turn)
    ELSE IF All(dones)
         THEN [pc |-> "dealer", player_idx |-> 0, current_turn |-> turn + 1]
         ELSE NextTurn(dones, n_players, 0, turn + 1)

\* Entering "while not all(self._player_dones)".
EnterLoop(dones, n_players, turn) ==
    IF All(dones)
    THEN [pc |-> "dealer", player_idx |-> 0, current_turn |-> turn]
    ELSE NextTurn(dones, n_players, 0, turn)

-----------------------------------------------------------------------------
(* The inputs. *)

DeckCounts == 0..MaxDecks

\* The number of players whose initial deal takes every card of one deck.
FullTable == (Len(OneDeck) - 2) \div 2

\* The small tables with any number of decks, the full table with one deck.
PlayerCounts(n_decks) ==
    (0..MaxPlayers) \cup (IF n_decks = 1 THEN {FullTable} ELSE {})

\* Indices handed to player_draw: the first player, the last one counted from
\* the end, and one past the last player of the small games.
IdxInputs == {0 - 1, 0, MaxPlayers}

Inputs == {"h", "s", "x"}

Called(op, arg, ret, err) == [op |-> op, arg |-> arg, ret |-> ret, err |-> err]

-----------------------------------------------------------------------------
(* Blackjack.__init__ *)

Init ==
    \E nd \in DeckCounts : \E np \in PlayerCounts(nd) :
        \E stack \in Shuffles(the_list(nd)) :
            /\ num_decks = nd
            /\ num_players = np
            /\ card_stack = stack
            /\ dealer_stack = <<>>
            /\ player_stacks = [i \in 1..np |-> <<>>]
            /\ player_dones = [i \in 1..np |-> FALSE]
            /\ current_turn = 0
            /\ pc = "new"
            /\ player_idx = 0
            /\ calls = 0
            /\ call = Called("__init__", <<nd, np>>, "None", NoError)

-----------------------------------------------------------------------------
(* Method calls made on the object from outside run(). *)

Callable == pc \in {"new", "idle"} /\ calls < MaxCalls

DealerDraw ==
    /\ Callable
    /\ \E silent \in BOOLEAN :
        LET r == dealer_draw(card_stack, dealer_stack)
        IN  /\ card_stack' = r.card_stack
            /\ dealer_stack' = r.dealer_stack
            /\ call' = Called("dealer_draw", silent, r.ret, r.err)
    /\ pc' = "idle"
    /\ calls' = calls + 1
    /\ UNCHANGED <<num_decks, num_players, player_stacks, player_dones,
                   current_turn, player_idx>>

PlayerDraw ==
    /\ Callable
    /\ \E idx \in IdxInputs :
        LET r == player_draw(card_stack, player_stacks, idx)
        IN  /\ card_stack' = r.card_stack
            /\ player_stacks' = r.player_stacks
            /\ call' = Called("player_draw", idx, r.ret, r.err)
    /\ pc' = "idle"
    /\ calls' = calls + 1
    /\ UNCHANGED <<num_decks, num_players, dealer_stack, player_dones,
                   current_turn, player_idx>>

InitialDeal ==
    /\ Callable
    /\ LET r == initial_deal(card_stack, dealer_stack, player_stacks, num_players)
       IN  /\ card_stack' = r.card_stack
           /\ dealer_stack' = r.dealer_stack
           /\ player_stacks' = r.player_stacks
           /\ call' = Called("initial_deal", <<>>, "None", r.err)
    /\ pc' = "idle"
    /\ calls' = calls + 1
    /\ UNCHANGED <<num_decks, num_players, player_dones, current_turn, player_idx>>

ComputeWinners ==
    /\ Callable
    /\ call' = Called("compute_winners", <<>>,
                      compute_winners(dealer_stack, player_stacks), NoError)
    /\ pc' = "idle"
    /\ calls' = calls + 1
    /\ UNCHANGED <<game, player_idx>>

-----------------------------------------------------------------------------
(* run(), one action per blocking point. *)

\* run() up to its first prompt: the initial deal, then the while loop.
Run ==
    /\ Callable
    /\ LET r == initial_deal(card_stack, dealer_stack, player_stacks, num_players)
           t == EnterLoop(player_dones, num_players, current_turn)
       IN  /\ card_stack' = r.card_stack
           /\ dealer_stack' = r.dealer_stack
           /\ player_stacks' = r.player_stacks
           /\ call' = Called("initial_deal", <<>>, "None", r.err)
           /\ IF r.err # NoError
              THEN /\ pc' = "idle"
                   /\ UNCHANGED <<player_idx, current_turn>>
              ELSE /\ pc' = t.pc
                   /\ player_idx' = t.player_idx
                   /\ current_turn' = t.current_turn
    /\ calls' = calls + 1
    /\ UNCHANGED <<num_decks, num_players, player_dones>>

\* _player_choice at an open prompt, and run() up to the next blocking point.
\* An input other than 'h' and 's' leaves the prompt open.
PlayerChoice ==
    /\ pc = "prompt"
    /\ \E player_input \in Inputs :
        \/ /\ player_input \in {"h", "s"}
           /\ LET r == _player_choice(card_stack, player_stacks, player_idx,
                                      player_input)
                  dones == [player_dones EXCEPT ![player_idx + 1] = r.ret]
                  t == NextTurn(dones, num_players, player_idx + 1, current_turn)
              IN  /\ card_stack' = r.card_stack
                  /\ player_stacks' = r.player_stacks
                  /\ call' = Called("_player_choice", <<player_idx, player_input>>,
                                    r.ret, r.err)
                  /\ IF r.err # NoError
                     THEN /\ pc' = "idle"
                          /\ UNCHANGED <<player_dones, player_idx, current_turn>>
                     ELSE /\ player_dones' = dones
                          /\ pc' = t.pc
                          /\ player_idx' = t.player_idx
                          /\ current_turn' = t.current_turn
        \/ /\ player_input \notin {"h", "s"}
           /\ UNCHANGED <<card_stack, player_stacks, player_dones, pc, player_idx,
                          current_turn, call>>
    /\ UNCHANGED <<num_decks, num_players, dealer_stack, calls>>

\* One turn of "while not self.dealer_draw()".
RunDealer ==
    /\ pc = "dealer"
    /\ LET r == dealer_draw(card_stack, dealer_stack)
       IN  /\ card_stack' = r.card_stack
           /\ dealer_stack' = r.dealer_stack
           /\ call' = Called("dealer_draw", FALSE, r.ret, r.err)
           /\ pc' = IF r.err # NoError THEN "idle"
                    ELSE IF r.ret THEN "resolve" ELSE "dealer"
    /\ UNCHANGED <<num_decks, num_players, player_stacks, player_dones,
                   current_turn, player_idx, calls>>

\* The final winners are computed and printed, and run() returns.
RunFinish ==
    /\ pc = "resolve"
    /\ call' = Called("compute_winners", <<>>,
                      compute_winners(dealer_stack, player_stacks), NoError)
    /\ pc' = "idle"
    /\ UNCHANGED <<game, player_idx, calls>>

Next ==
    \/ DealerDraw
    \/ PlayerDraw
    \/ InitialDeal
    \/ ComputeWinners
    \/ Run
    \/ PlayerChoice
    \/ RunDealer
    \/ RunFinish

Spec == Init /\ [][Next]_vars

-----------------------------------------------------------------------------
(* The evaluation and resolution methods called on their own, on inputs    *)
(* drawn from bounded sets.  They read only the attributes that never      *)
(* change, so the game object stays as constructed; each behaviour makes   *)
(* one such call on the new object.                                        *)

HandCards == {Card(SUITS[1], n) : n \in LOWEST_CARD..HIGHEST_CARD}

Hands == UNION {[1..k -> HandCards] : k \in 0..MaxHandLen}

Sums == 0..MaxSum

\* Hands of at most two cards among an Ace, a six and a King.
SampleHands ==
    UNION {[1..k -> {Card(SUITS[1], n) : n \in {LOWEST_CARD, 6, HIGHEST_CARD}}] :
            k \in 0..2}

InitPure ==
    /\ Init
    /\ num_decks = 1
    /\ num_players = 1
    /\ card_stack = Shuffle(the_list(1), 1, 0)

CallCalculateStackSum ==
    /\ pc = "new"
    /\ pc' = "idle"
    /\ \E stack \in Hands :
        call' = Called("_calculate_stack_sum", stack, _calculate_stack_sum(stack),
                       NoError)
    /\ UNCHANGED <<game, player_idx, calls>>

CallComputeWinner ==
    /\ pc = "new"
    /\ pc' = "idle"
    /\ \E dealer_sum \in Sums, player_sum \in Sums :
        call' = Called("_compute_winner", <<dealer_sum, player_sum>>,
                       _compute_winner(dealer_sum, player_sum), NoError)
    /\ UNCHANGED <<game, player_idx, calls>>

\* compute_winners on a game whose hands are the given ones.
CallComputeWinners ==
    /\ pc = "new"
    /\ pc' = "idle"
    /\ \E n \in 0..MaxPlayers :
        \E d_stack \in SampleHands, p_stacks \in [1..n -> SampleHands] :
            call' = Called("compute_winners", <<d_stack, p_stacks>>,
                           compute_winners(d_stack, p_stacks), NoError)
    /\ UNCHANGED <<game, player_idx, calls>>

NextPure ==
    \/ CallCalculateStackSum
    \/ CallComputeWinner
    \/ CallComputeWinners

SpecPure == InitPure /\ [][NextPure]_vars

-----------------------------------------------------------------------------
(* main(): a game is created and run() is called on it, once.  Once run()  *)
(* has dealt, every prompt is eventually answered and run() goes on        *)
(* whenever it can.                                                        *)

RunOnce == pc = "new" /\ Run

NextRun ==
    \/ RunOnce
    \/ PlayerChoice
    \/ RunDealer
    \/ RunFinish

SpecRun ==
    /\ Init
    /\ [][NextRun]_vars
    /\ WF_vars(PlayerChoice)
    /\ WF_vars(RunDealer)
    /\ WF_vars(RunFinish)

-----------------------------------------------------------------------------
(* run() on one deck and one player, the shuffle having left at the end of  *)
(* the list, in drawing order, a 10, a 6, two 9s and a 4, of any suits.    *)

Suits == {SUITS[i] : i \in 1..Len(SUITS)}

\* The list with the given cards moved to its end, so that they are drawn in
\* the order given.
StackedDeck(draws) ==
    LET tail == [i \in 1..Len(draws) |-> draws[Len(draws) + 1 - i]]
        inTail(c) == \E i \in 1..Len(tail) : tail[i] = c
    IN  SelectSeq(the_list(1), LAMBDA c : ~inTail(c)) \o tail

ScenarioDecks ==
    {StackedDeck(<<Card(s10, 10), Card(s6, 6), Card(s9[1], 9), Card(s9[2], 9),
                   Card(s4, 4)>>) :
        s10 \in Suits, s6 \in Suits, s4 \in Suits,
        s9 \in {p \in Suits \X Suits : p[1] # p[2]} }

InitScenario ==
    /\ num_decks = 1
    /\ num_players = 1
    /\ card_stack \in ScenarioDecks
    /\ dealer_stack = <<>>
    /\ player_stacks = [i \in 1..1 |-> <<>>]
    /\ player_dones = [i \in 1..1 |-> FALSE]
    /\ current_turn = 0
    /\ pc = "new"
    /\ player_idx = 0
    /\ calls = 0
    /\ call = Called("__init__", <<1, 1>>, "None", NoError)

SpecScenario == InitScenario /\ [][NextRun]_vars

-----------------------------------------------------------------------------
(* Reference definitions the claims are stated with. *)

\* The points of a non-Ace rank: min(rank, 10).
RankPoints(n) == IF n > 10 THEN 10 ELSE n

RECURSIVE NonAcePoints(_)
NonAcePoints(stack) ==
    IF stack = <<>> THEN 0
    ELSE (IF Head(stack).number = 1 THEN 0 ELSE RankPoints(Head(stack).number))
         + NonAcePoints(Tail(stack))

RECURSIVE AceCount(_)
AceCount(stack) ==
    IF stack = <<>> THEN 0
    ELSE (IF Head(stack).number = 1 THEN 1 ELSE 0) + AceCount(Tail(stack))

\* Every total the hand can take, each Ace valued 1 or 11.
Valuations(stack) ==
    {NonAcePoints(stack) + AceCount(stack) + 10 * high : high \in 0..AceCount(stack)}

SetMax(S) == CHOOSE x \in S : \A y \in S : y <= x

\* The largest valuation not above 21, or every Ace valued 1 when there is none.
Optimal(stack) ==
    LET fit == {v \in Valuations(stack) : v <= 21}
    IN  IF fit # {} THEN SetMax(fit) ELSE NonAcePoints(stack) + AceCount(stack)

\* The resolver's rules in their stated order, each a condition and an outcome.
Rules(d, p) ==
    << <<d = 21 /\ p = 21, "NONE">>,
       <<d = 21, "DEALER">>,
       <<d < 21 /\ d > p, "DEALER">>,
       <<p > 21, "DEALER">>,
       <<p = 21, "PLAYER">>,
       <<d < p /\ p < 21, "PLAYER">>,
       <<TRUE, "NONE">> >>

FirstMatch(d, p) ==
    LET first == CHOOSE i \in 1..7 :
                    /\ Rules(d, p)[i][1]
                    /\ \A j \in 1..(i - 1) : ~Rules(d, p)[j][1]
    IN  Rules(d, p)[first][2]

-----------------------------------------------------------------------------
(* Claims on the evaluation and the resolution, under SpecPure. *)

\* C1: for every hand, _calculate_stack_sum returns the Blackjack-optimal total:
\* the largest total not above 21 over all valuations of the Aces as 1 or 11, or
\* the total with every Ace valued 1 when no valuation stays at or below 21.
C1_ReturnsOptimalTotal ==
    call.op = "_calculate_stack_sum" => call.ret = Optimal(call.arg)

\* C2: _compute_winner returns the outcome of the first matching rule of the
\* seven, in order; compute_winners applies it once per player against the same
\* dealer sum and returns one outcome per player, in player-index order.
C2_FirstMatchingRule ==
    /\ call.op = "_compute_winner" =>
        /\ call.ret = FirstMatch(call.arg[1], call.arg[2])
        /\ call.arg = <<21, 21>> => call.ret = "NONE"
        /\ call.arg = <<21, 17>> => call.ret = "DEALER"
        /\ call.arg = <<18, 22>> => call.ret = "DEALER"
        /\ call.arg = <<17, 19>> => call.ret = "PLAYER"
        /\ call.arg = <<22, 23>> => call.ret = "DEALER"
    /\ call.op = "compute_winners" =>
        LET d_stack == call.arg[1]
            p_stacks == call.arg[2]
        IN  /\ Len(call.ret) = Len(p_stacks)
            /\ \A i \in 1..Len(p_stacks) :
                call.ret[i] = FirstMatch(_calculate_stack_sum(d_stack),
                                         _calculate_stack_sum(p_stacks[i]))

\* C2 happens: two players resolved against a dealer at 21, one pushing with
\* 21 and the other losing.
C2_Witness ==
    /\ call.op = "compute_winners"
    /\ Len(call.ret) = 2
    /\ _calculate_stack_sum(call.arg[1]) = 21
    /\ call.ret = <<"NONE", "DEALER">>

\* C3: a player whose sum exceeds 21 gets DEALER, whatever the dealer's sum
\* (below 21, exactly 21, or above 21).
C3_BustedPlayerLoses ==
    (call.op = "_compute_winner" /\ call.arg[2] > 21) => call.ret = "DEALER"

\* C3 happens: both the dealer and the player are above 21.
C3_Witness ==
    /\ call.op = "_compute_winner"
    /\ call.arg[1] > 21
    /\ call.arg[2] > 21
    /\ call.ret = "DEALER"

\* C6: with s the points of the non-Ace cards, a hand without an Ace sums to s
\* (0 when empty, above 21 when s is), and a hand with one Ace sums to s + 11
\* when that is at most 21 and to s + 1 otherwise.
C6_AtMostOneAce ==
    call.op = "_calculate_stack_sum" =>
        LET s == NonAcePoints(call.arg)
        IN  /\ AceCount(call.arg) = 0 => call.ret = s
            /\ AceCount(call.arg) = 1 =>
                call.ret = IF s + 11 <= 21 THEN s + 11 ELSE s + 1
            /\ call.arg = <<>> => call.ret = 0

\* C6 happens: a hand with one Ace and face cards, where the Ace counts 1.
C6_Witness ==
    /\ call.op = "_calculate_stack_sum"
    /\ AceCount(call.arg) = 1
    /\ \E i \in 1..Len(call.arg) : call.arg[i].number > 10
    /\ NonAcePoints(call.arg) + 11 > 21
    /\ call.ret = NonAcePoints(call.arg) + 1

-----------------------------------------------------------------------------
(* Claims on the game object, under Spec.  A step is told by the call it   *)
(* records: every action that changes the state records its call.          *)

EveryDone == \A i \in 1..Len(player_dones) : player_dones[i]

RECURSIVE Flatten(_)
Flatten(stacks) == IF stacks = <<>> THEN <<>> ELSE Head(stacks) \o Flatten(Tail(stacks))

\* Every card of the game: the deck, the dealer's hand and the players' hands.
AllCards == card_stack \o dealer_stack \o Flatten(player_stacks)

Count(card, stack) == Cardinality({i \in 1..Len(stack) : stack[i] = card})

IsPrefix(s, t) == Len(s) <= Len(t) /\ SubSeq(t, 1, Len(s)) = s

DealerSum == _calculate_stack_sum(dealer_stack)

\* A game built with at least one deck and at least one player.
WellConfigured == num_decks >= 1 /\ num_players >= 1

\* C4 as stated, in a game with a deck and a player: a dealer_draw with the sum
\* below 17 removes one card from the deck, appends it to the dealer's hand and
\* returns False; with the sum at 17 or more it returns True and changes neither.
C4_Original ==
    [][(WellConfigured /\ call'.op = "dealer_draw") =>
        IF DealerSum < 17
        THEN /\ Len(card_stack') = Len(card_stack) - 1
             /\ card_stack' = SubSeq(card_stack, 1, Len(card_stack) - 1)
             /\ dealer_stack' = Append(dealer_stack, card_stack[Len(card_stack)])
             /\ call'.ret = FALSE
             /\ call'.err = NoError
        ELSE /\ call'.ret = TRUE
             /\ UNCHANGED <<card_stack, dealer_stack>>]_vars

\* C4, amended: a dealer_draw with the sum below 17 and a card left in the deck
\* removes the deck's last card, appends it to the dealer's hand and returns
\* False; with the sum below 17 and the deck empty it raises and changes neither;
\* with the sum at 17 or more it returns True and changes neither.  No step adds
\* a card to a dealer hand whose sum is 17 or more.
C4_DealerThreshold ==
    [][/\ call'.op = "dealer_draw" =>
            IF DealerSum < 17 /\ card_stack # <<>>
            THEN /\ card_stack' = SubSeq(card_stack, 1, Len(card_stack) - 1)
                 /\ dealer_stack' = Append(dealer_stack, card_stack[Len(card_stack)])
                 /\ call'.ret = FALSE
                 /\ call'.err = NoError
            ELSE IF DealerSum < 17
            THEN /\ call'.err = PopFromEmptyList
                 /\ UNCHANGED <<card_stack, dealer_stack>>
            ELSE /\ call'.ret = TRUE
                 /\ call'.err = NoError
                 /\ UNCHANGED <<card_stack, dealer_stack>>
       /\ IsPrefix(dealer_stack, dealer_stack')
       /\ \A k \in (Len(dealer_stack) + 1)..Len(dealer_stack') :
            _calculate_stack_sum(SubSeq(dealer_stack', 1, k - 1)) < 17
      ]_vars

\* C4 happens: in run(), the dealer has hit on a two-card hand below 17.
C4_Witness ==
    /\ call.op = "dealer_draw"
    /\ call.ret = FALSE
    /\ call.err = NoError
    /\ pc = "dealer"
    /\ Len(dealer_stack) = 3
    /\ _calculate_stack_sum(SubSeq(dealer_stack, 1, 2)) < 17

\* C5, in a game with a deck and a player: the deck of a game with num_decks = n
\* holds each (suit, rank) pair n times, 52 * n cards, and in every state the
\* deck, the dealer's hand and the players' hands together are exactly those
\* cards: none duplicated, none lost.
C5_CardConservation ==
    WellConfigured =>
        /\ Len(AllCards) = 52 * num_decks
        /\ \A i \in 1..Len(OneDeck) : Count(OneDeck[i], AllCards) = num_decks

\* C7, in a game with a deck and a player: a player_draw for an index out of
\* 0..num_players-1, or for a player whose done flag is True, fails with
\* InvalidPlayerError and leaves the hands and the deck unchanged.
C7_HitRejected ==
    [][(/\ WellConfigured
        /\ call'.op = "player_draw"
        /\ \/ call'.arg < 0
           \/ call'.arg >= num_players
           \/ player_dones[call'.arg + 1])
       => /\ call'.err = "InvalidPlayerError"
          /\ UNCHANGED <<player_stacks, card_stack>>]_vars

\* C8 as stated, in a game with a deck and a player: a dealer_draw while some
\* done flag is False returns an error and draws nothing, and the dealer's hand
\* changes only when every done flag is True.
C8_Original ==
    [][WellConfigured =>
        /\ (call'.op = "dealer_draw" /\ ~EveryDone) =>
                (call'.err # NoError /\ dealer_stack' = dealer_stack)
        /\ dealer_stack' # dealer_stack => EveryDone]_vars

\* C8, amended: dealer_draw has no precondition on the done flags: called while
\* some flag is False, it draws as the threshold alone says and raises nothing
\* for the flags.  Within run(), the dealer's loop starts only when every done
\* flag is True.
C8_NoGuardButRunOrder ==
    [][/\ (call'.op = "dealer_draw" /\ ~EveryDone /\ card_stack # <<>>) =>
            /\ call'.err = NoError
            /\ (DealerSum < 17) = (Len(dealer_stack') = Len(dealer_stack) + 1)
       /\ (call'.op = "dealer_draw" /\ pc = "dealer") => EveryDone
       /\ pc' = "dealer" => EveryDone'
      ]_vars

\* C8 happens: dealer_draw called on a game none of whose players is done has
\* drawn a card.
C8_Witness ==
    /\ call.op = "dealer_draw"
    /\ call.err = NoError
    /\ call.ret = FALSE
    /\ pc = "idle"
    /\ Len(player_dones) >= 1
    /\ \A i \in 1..Len(player_dones) : ~player_dones[i]
    /\ dealer_stack # <<>>

\* C9: a game with num_decks < 1 or num_players < 1 is not created (its
\* construction fails with InvalidConfigError), so every game has at least one
\* player and was built with at least 52 cards.
C9_ConfigValidated ==
    /\ call.op = "__init__" =>
        /\ (call.arg[1] < 1 \/ call.arg[2] < 1) => call.err = "InvalidConfigError"
        /\ call.err = NoError => Len(card_stack) >= 52
    /\ num_decks >= 1
    /\ num_players >= 1
    /\ Len(player_stacks) >= 1

\* A step that asks the deck for a card first thing.
DrawRequested ==
    \/ call'.op = "player_draw"
    \/ call'.op = "dealer_draw" /\ DealerSum < 17
    \/ call'.op = "_player_choice" /\ call'.arg[2] = "h"
    \/ call'.op = "initial_deal" /\ (DealerSum < 17 \/ num_players >= 1)

-----------------------------------------------------------------------------
(* Claims on the deal, the hit and the stay, under Spec. *)

\* The card drawn k-th (k = 1, 2, ...) from the deck as it stands.
Drawn(k) == card_stack[Len(card_stack) + 1 - k]

\* C11: initial_deal on a freshly created game whose deck holds at least
\* 2 + 2*num_players cards deals, in this order, two cards to the dealer and
\* then two consecutive cards to each player in increasing player index; after
\* it the dealer's hand and every player's hand hold exactly 2 cards and the
\* deck is shorter by exactly 2 + 2*num_players, whatever the deck's order.
C11_InitialDealOrder ==
    [][(/\ pc = "new"
        /\ call'.op = "initial_deal"
        /\ Len(card_stack) >= 2 + 2 * num_players)
       => /\ call'.err = NoError
          /\ dealer_stack' = <<Drawn(1), Drawn(2)>>
          /\ Len(player_stacks') = num_players
          /\ \A i \in 1..num_players :
                player_stacks'[i] = <<Drawn(2 * i + 1), Drawn(2 * i + 2)>>
          /\ card_stack' = SubSeq(card_stack, 1,
                                  Len(card_stack) - (2 + 2 * num_players))
          /\ UNCHANGED player_dones]_vars

\* C11 happens: the first call on a two-player game was initial_deal, and it
\* left six cards dealt and 46 in the deck.
C11_Witness ==
    /\ call.op = "initial_deal"
    /\ call.err = NoError
    /\ calls = 1
    /\ pc = "idle"
    /\ num_players = 2
    /\ Len(dealer_stack) = 2
    /\ \A i \in 1..2 : Len(player_stacks[i]) = 2
    /\ Len(card_stack) = 52 * num_decks - 6


\* The evaluated sum of player i's hand (i counted from 1) after the step.
PlayerSumAfter(i) == _calculate_stack_sum(player_stacks'[i])

C13_StayFrame ==
    [][(/\ pc = "prompt"
        /\ call'.op = "_player_choice"
        /\ call'.arg[2] = "s")
       => /\ call'.arg[1] = player_idx
          /\ call'.ret = TRUE
          /\ call'.err = NoError
          /\ player_dones' = [player_dones EXCEPT ![player_idx + 1] = TRUE]
          /\ UNCHANGED <<card_stack, dealer_stack, player_stacks>>]_vars

\* C13 happens: the first of two players has stayed, the second is still to
\* act, and every hand holds its two dealt cards.
C13_Witness ==
    /\ call.op = "_player_choice"
    /\ call.arg = <<0, "s">>
    /\ num_players = 2
    /\ player_dones = <<TRUE, FALSE>>
    /\ pc = "prompt"
    /\ player_idx = 1
    /\ Len(dealer_stack) = 2
    /\ \A i \in 1..2 : Len(player_stacks[i]) = 2

-----------------------------------------------------------------------------
(* Claims on run() as main() calls it, under SpecRun. *)

\* run() has returned after printing the final winners.
RunCompleted == pc = "idle" /\ call.op = "compute_winners"

\* run() has ended in the exception of a draw from the exhausted deck.
DeckExhausted == pc = "idle" /\ call.err = PopFromEmptyList

\* C14: in run(), every prompt eventually receiving 'h' or 's', unless the
\* deck is exhausted every player eventually becomes done, the dealer's loop
\* then reaches a stand after finitely many draws and the game completes;
\* when it completes, every done flag is True and the dealer's evaluated sum
\* is at least 17.  A player who hits at every prompt is eventually done.
C14_RunTerminates ==
    /\ (pc = "prompt") ~> (EveryDone \/ DeckExhausted)
    /\ (pc = "dealer") ~> (RunCompleted \/ DeckExhausted)
    /\ [](pc = "dealer" => EveryDone)
    /\ []((pc = "resolve" \/ RunCompleted) => (EveryDone /\ DealerSum >= 17))

\* C14 happens: a two-player game has completed after a player hit until bust
\* and the dealer drew to a third card.
C14_Witness ==
    /\ RunCompleted
    /\ num_players = 2
    /\ EveryDone
    /\ DealerSum >= 17
    /\ Len(dealer_stack) >= 3
    /\ \E i \in 1..2 :
        /\ Len(player_stacks[i]) >= 3
        /\ _calculate_stack_sum(player_stacks[i]) > 21

-----------------------------------------------------------------------------
(* Claim on the end-to-end scenario, under SpecScenario. *)

Numbers(stack) == [i \in 1..Len(stack) |-> stack[i].number]

\* The player has stayed at the first prompt: done, with the two dealt cards.
StayedAtFirstPrompt == player_dones[1] /\ Len(player_stacks[1]) = 2

\* C15: one deck, one player, the deck ordered so that the dealer's draws are
\* 10, 6, 4 and the player's 9, 9: the player is first prompted at sum 18 with
\* the dealer holding 10 and 6; if the player stays there, the dealer draws
\* exactly one more card, reaching 20, then stands, and the player's outcome is
\* DEALER.
C15_Scenario ==
    /\ (pc = "prompt" /\ current_turn = 0) =>
        /\ Numbers(dealer_stack) = <<10, 6>>
        /\ Numbers(player_stacks[1]) = <<9, 9>>
        /\ _calculate_stack_sum(player_stacks[1]) = 18
    /\ (pc = "dealer" /\ StayedAtFirstPrompt) =>
        \/ Numbers(dealer_stack) = <<10, 6>>
        \/ Numbers(dealer_stack) = <<10, 6, 4>>
    /\ ((pc = "resolve" \/ RunCompleted) /\ StayedAtFirstPrompt) =>
        /\ Numbers(dealer_stack) = <<10, 6, 4>>
        /\ DealerSum = 20
        /\ _calculate_stack_sum(player_stacks[1]) = 18
    /\ (RunCompleted /\ StayedAtFirstPrompt) => call.ret = <<"DEALER">>

\* C15 happens: the scenario has run to its end with the player staying at 18.
C15_Witness ==
    /\ RunCompleted
    /\ StayedAtFirstPrompt
    /\ Numbers(dealer_stack) = <<10, 6, 4>>
    /\ Numbers(player_stacks[1]) = <<9, 9>>
    /\ call.ret = <<"DEALER">>

-----------------------------------------------------------------------------
(* Claims on busts and ties in the resolution, under SpecPure. *)

\* C16: a busted hand loses, the dealer's as well as a player's: whenever the
\* dealer's sum exceeds 21 and the player's sum is at most 21, the outcome is
\* PLAYER.
C16_BustedDealerLoses ==
    (call.op = "_compute_winner" /\ call.arg[1] > 21 /\ call.arg[2] <= 21)
        => call.ret = "PLAYER"

\* C19 as stated: whenever the dealer's sum and the player's sum are equal and
\* not 21, the outcome is NONE.
C19_Original ==
    (call.op = "_compute_winner" /\ call.arg[1] = call.arg[2] /\ call.arg[1] # 21)
        => call.ret = "NONE"

\* C19, amended: whenever the dealer's sum and the player's sum are equal and
\* below 21, the outcome is NONE (the final 'otherwise' rule); equal sums
\* above 21 are the player's bust and the outcome is DEALER.
C19_EqualSums ==
    (call.op = "_compute_winner" /\ call.arg[1] = call.arg[2]) =>
        /\ call.arg[1] < 21 => call.ret = "NONE"
        /\ call.arg[1] > 21 => call.ret = "DEALER"

\* C19 happens: the dealer and the player both stand on 18 and nobody wins.
C19_Witness ==
    /\ call.op = "_compute_winner"
    /\ call.arg = <<18, 18>>
    /\ call.ret = "NONE"

-----------------------------------------------------------------------------
(* Claims on the order of play and on the hands. *)

\* C17, under SpecRun: in run(), after the initial deal has given the dealer 2
\* cards, the dealer's hand receives no card while a done flag is False; once
\* the dealer's loop has started no player's hand or done flag changes and no
\* prompt opens; the outcomes are computed only after dealer_draw has returned
\* True, the dealer standing on 17 or more.
C17_TurnOrdering ==
    [][/\ pc = "prompt" =>
            (dealer_stack' = dealer_stack /\ Len(dealer_stack) = 2)
       /\ (pc # "new" /\ dealer_stack' # dealer_stack) =>
            (pc = "dealer" /\ EveryDone)
       /\ pc \in {"dealer", "resolve"} =>
            (UNCHANGED <<player_stacks, player_dones>> /\ pc' # "prompt")
       /\ call'.op = "compute_winners" =>
            /\ pc = "resolve"
            /\ call.op = "dealer_draw"
            /\ call.ret = TRUE
            /\ DealerSum >= 17
            /\ EveryDone
            /\ UNCHANGED dealer_stack
      ]_vars

\* C17 happens: both players being done after a second pass, the dealer has
\* drawn a third card.
C17_Witness ==
    /\ pc = "dealer"
    /\ call.op = "dealer_draw"
    /\ call.ret = FALSE
    /\ num_players = 2
    /\ EveryDone
    /\ current_turn >= 2
    /\ Len(dealer_stack) = 3

\* The number of cards in the hands after the step, less the number before.
HandsGrowth ==
    (Len(dealer_stack') + Len(Flatten(player_stacks')))
        - (Len(dealer_stack) + Len(Flatten(player_stacks)))

\* C18, under Spec: across every action of a game (initial deal, hit, stay,
\* dealer step, direct draw, winner computation) each hand before the action
\* is a prefix of the hand after it; a draw adds at most one card to the hands,
\* at the end of one hand, and it is the card taken from the deck; the initial
\* deal adds at most two cards to each hand; no hand loses or reorders cards.
C18_HandsAppendOnly ==
    [][/\ IsPrefix(dealer_stack, dealer_stack')
       /\ Len(player_stacks') = Len(player_stacks)
       /\ \A i \in 1..Len(player_stacks) :
            /\ IsPrefix(player_stacks[i], player_stacks'[i])
            /\ Len(player_stacks'[i]) <= Len(player_stacks[i]) + 2
       /\ Len(dealer_stack') <= Len(dealer_stack) + 2
       /\ call'.op # "initial_deal" =>
            /\ HandsGrowth \in {0, 1}
            /\ HandsGrowth = 1 =>
                 /\ card_stack # <<>>
                 /\ \/ /\ dealer_stack' = Append(dealer_stack, Drawn(1))
                       /\ player_stacks' = player_stacks
                    \/ /\ dealer_stack' = dealer_stack
                       /\ \E i \in 1..Len(player_stacks) :
                            player_stacks' =
                              [player_stacks EXCEPT ![i] = Append(@, Drawn(1))]
       /\ call'.op = "compute_winners" => HandsGrowth = 0
       /\ (call'.op = "_player_choice" /\ call'.arg[2] = "s") => HandsGrowth = 0
      ]_vars

\* C18 happens: after the initial deal, a direct player_draw with index -1 has
\* appended a third card to the last player's hand.
C18_Witness ==
    /\ call.op = "player_draw"
    /\ call.arg = 0 - 1
    /\ call.err = NoError
    /\ num_players = 2
    /\ Len(dealer_stack) = 2
    /\ Len(player_stacks[1]) = 2
    /\ Len(player_stacks[2]) = 3
    /\ player_stacks[2][3] = call.ret


\* The players not yet done after the step, by 0-based index.
OpenAfter == {j \in 0..(num_players - 1) : ~player_dones'[j + 1]}

\* C20, under SpecRun: in run() a done flag that is True stays True and its
\* player's hand never changes again, so the outcome is computed from the hand
\* the player had when marked done; a done player is never prompted; a prompt
\* changes only the prompted player's hand and flag; within a pass the
\* not-done players are prompted in increasing index order, each once, and
\* _current_turn grows by exactly one when a pass ends and never otherwise.
C20_DoneFinalAndPassOrder ==
    [][/\ \A i \in 1..Len(player_dones) :
            player_dones[i] =>
                (player_dones'[i] /\ player_stacks'[i] = player_stacks[i])
       /\ pc' = "prompt" => player_idx' \in OpenAfter
       /\ pc = "prompt" =>
            \A i \in 1..Len(player_dones) :
                i # player_idx + 1 =>
                    /\ player_dones'[i] = player_dones[i]
                    /\ player_stacks'[i] = player_stacks[i]
       /\ (pc = "new" /\ pc' = "prompt") =>
            (player_idx' = 0 /\ current_turn' = 0)
       /\ (pc = "prompt" /\ pc' = "prompt") =>
            IF player_idx' > player_idx
            THEN /\ current_turn' = current_turn
                 /\ \A j \in OpenAfter : j <= player_idx \/ j >= player_idx'
            ELSE /\ current_turn' = current_turn + 1
                 /\ \A j \in OpenAfter : j <= player_idx /\ j >= player_idx'
       /\ (pc = "prompt" /\ pc' = "dealer") =>
            (current_turn' = current_turn + 1 /\ OpenAfter = {})
       /\ pc \in {"dealer", "resolve"} => current_turn' = current_turn
       /\ call'.op = "compute_winners" =>
            \A i \in 1..Len(player_stacks) :
                call'.ret[i] =
                    _compute_winner(DealerSum, _calculate_stack_sum(player_stacks[i]))
      ]_vars

\* C20 happens: in the second pass the first player, done since the first
\* pass with two cards, is skipped and the second player, who hit, is prompted.
C20_Witness ==
    /\ pc = "prompt"
    /\ num_players = 2
    /\ player_dones = <<TRUE, FALSE>>
    /\ player_idx = 1
    /\ current_turn = 1
    /\ Len(player_stacks[1]) = 2
    /\ Len(player_stacks[2]) = 3
    /\ call.op = "_player_choice"
    /\ call.arg = <<1, "h">>

====
